---- MODULE Spec2Model ----
(***************************************************************************)
(* Workflow automation engine: the 'workflows' queue worker                *)
(* (WorkflowEngine.initialize), the BFS traversal (executeNodes), the node *)
(* executors (executeNode), the enqueueing entry point (execute), the      *)
(* workflow routes and the job queue's retry policy.                       *)
(* Times are in milliseconds.                                              *)
(***************************************************************************)
EXTENDS Integers, Sequences, FiniteSets, Bags, TLC

\* ------------------------------------------------------------------ bounds
\* Number of concurrent processors of the 'workflows' queue that are modelled
\* (config.queue.concurrency.workflows is 5).
NumWorkers == 2
\* Number of execute() calls accepted in one behaviour.
MaxRequests == 2
\* Number of rows the workflows table may hold in one behaviour.
MaxWorkflows == 1
\* Number of clock ticks in one behaviour.
MaxTicks == 2
\* Number of execution records that may be in status cancelled at one time.
MaxCancels == 1
\* Longest edge list drawn in the traversal specification.
MaxEdges == 3
\* Number of recordMessage calls in one behaviour.
MaxRecorded == 2
\* Number of periodic reputation checks in one behaviour.
MaxChecks == 2

\* --------------------------------------------------------- program constants
\* config.queue.defaultJobOptions.attempts
Attempts == 3
\* executeNode case 'delay': node.data.delayMs || 1000
DefaultDelayMs == 1000
\* One clock tick.
TickMs == 1000
\* AntiBanService.checkRateLimit: hourlyLimit
HourlyLimit == 100
\* AntiBanService.initialize: the period of checkReputation
CheckIntervalMs == 60000

Workers == 1..NumWorkers
Tenants == {"t1", "t2"}
Leads == {"l1", "l2"}
\* leads.tenant_id of the two lead rows
LeadTenant == [l \in Leads |-> IF l = "l1" THEN "t1" ELSE "t2"]
\* The channels whose reputation is followed
Channels == {"sms", "email"}
\* AntiBanService's keys `${tenantId}:${channel}`
Keys == Tenants \X Channels

TerminalStatuses == {"completed", "failed", "cancelled"}

\* --------------------------------------------------------------- graph model
\* node.data: the fields the executors read; defined = FALSE stands for a node
\* stored without a data object (node.data is undefined).
EmptyData ==
    [defined |-> TRUE, channel |-> "", content |-> "", tag |-> "", delayMs |-> 0,
     updates |-> ""]
NoData == [EmptyData EXCEPT !.defined = FALSE]
Message(channel, content) == [EmptyData EXCEPT !.channel = channel, !.content = content]
Tag(tag) == [EmptyData EXCEPT !.tag = tag]
Updates(updates) == [EmptyData EXCEPT !.updates = updates]
Delay(delayMs) == [EmptyData EXCEPT !.delayMs = delayMs]
Node(id, type, data) == [id |-> id, type |-> type, data |-> data]
\* workflow.trigger
Trigger(type) == [type |-> type]
\* edge.condition: "" stands for an edge without a condition.
Edge(source, target, condition) ==
    [source |-> source, target |-> target, condition |-> condition]

\* trigger -> delay -> send_message
DelayGraph ==
    [trigger |-> Trigger("lead_created"),
     nodes |-> << Node("n1", "trigger", EmptyData),
                  Node("n2", "delay", Delay(2 * TickMs)),
                  Node("n3", "send_message", Message("sms", "Follow up")) >>,
     edges |-> << Edge("n1", "n2", ""), Edge("n2", "n3", "") >>]

\* A graph with a back-edge and an edge whose target names no node.
CyclicGraph ==
    [trigger |-> Trigger("lead_created"),
     nodes |-> << Node("n1", "trigger", EmptyData),
                  Node("n2", "add_tag", Tag("A")) >>,
     edges |-> << Edge("n1", "n2", ""), Edge("n2", "n1", "x > 1"),
                  Edge("n2", "ghost", "") >>]

\* A send_message node stored without data: its executor throws a TypeError
\* on node.data.channel, after the create_task node has inserted its task.
ThrowingGraph ==
    [trigger |-> Trigger("lead_created"),
     nodes |-> << Node("n1", "trigger", EmptyData),
                  Node("n2", "create_task", EmptyData),
                  Node("n3", "send_message", NoData) >>,
     edges |-> << Edge("n1", "n2", ""), Edge("n2", "n3", "") >>]

\* trigger -> wait_for_reply -> send_message
ReplyGraph ==
    [trigger |-> Trigger("lead_created"),
     nodes |-> << Node("n1", "trigger", EmptyData),
                  Node("n2", "wait_for_reply", EmptyData),
                  Node("n3", "send_message", Message("sms", "Thanks")) >>,
     edges |-> << Edge("n1", "n2", ""), Edge("n2", "n3", "") >>]

\* trigger -> split_path, whose two edges without a condition lead to
\* add_tag "A" and add_tag "B"
SplitGraph ==
    [trigger |-> Trigger("lead_created"),
     nodes |-> << Node("n1", "trigger", EmptyData),
                  Node("n2", "split_path", EmptyData),
                  Node("n3", "add_tag", Tag("A")),
                  Node("n4", "add_tag", Tag("B")) >>,
     edges |-> << Edge("n1", "n2", ""), Edge("n2", "n3", ""), Edge("n2", "n4", "") >>]

\* trigger(lead_created) -> send_message "Welcome" -> delay of one hour ->
\* send_message "Follow up" -> end
LinearGraph ==
    [trigger |-> Trigger("lead_created"),
     nodes |-> << Node("n1", "trigger", EmptyData),
                  Node("n2", "send_message", Message("sms", "Welcome")),
                  Node("n3", "delay", Delay(60 * 60 * 1000)),
                  Node("n4", "send_message", Message("sms", "Follow up")),
                  Node("n5", "end", EmptyData) >>,
     edges |-> << Edge("n1", "n2", ""), Edge("n2", "n3", ""), Edge("n3", "n4", ""),
                  Edge("n4", "n5", "") >>]

\* An edge whose condition reads a variable that no context holds leads to
\* add_tag "A"; another edge leads to the end node, which add_tag reaches too.
ConditionGraph ==
    [trigger |-> Trigger("lead_created"),
     nodes |-> << Node("n1", "trigger", EmptyData),
                  Node("n2", "add_tag", Tag("A")),
                  Node("n3", "end", EmptyData) >>,
     edges |-> << Edge("n1", "n2", "missing > 1"), Edge("n1", "n3", ""),
                  Edge("n2", "n3", "") >>]

\* trigger -> add_tag "A" -> remove_tag "B"
TagGraph ==
    [trigger |-> Trigger("lead_created"),
     nodes |-> << Node("n1", "trigger", EmptyData),
                  Node("n2", "add_tag", Tag("A")),
                  Node("n3", "remove_tag", Tag("B")) >>,
     edges |-> << Edge("n1", "n2", ""), Edge("n2", "n3", "") >>]

\* trigger -> end -> add_tag "A": an edge leaves the end node
EndGraph ==
    [trigger |-> Trigger("lead_created"),
     nodes |-> << Node("n1", "trigger", EmptyData),
                  Node("n2", "end", EmptyData),
                  Node("n3", "add_tag", Tag("A")) >>,
     edges |-> << Edge("n1", "n2", ""), Edge("n2", "n3", "") >>]

\* trigger -> update_lead
UpdateGraph ==
    [trigger |-> Trigger("lead_created"),
     nodes |-> << Node("n1", "trigger", EmptyData),
                  Node("n2", "update_lead", Updates("status = hot")) >>,
     edges |-> << Edge("n1", "n2", "") >>]

\* A trigger that leads to a send_message, a send_email and a webhook node
GateGraph ==
    [trigger |-> Trigger("lead_created"),
     nodes |-> << Node("n1", "trigger", EmptyData),
                  Node("n2", "send_message", Message("sms", "Welcome")),
                  Node("n3", "send_email", Message("", "Welcome")),
                  Node("n4", "webhook", EmptyData) >>,
     edges |-> << Edge("n1", "n2", ""), Edge("n1", "n3", ""), Edge("n2", "n3", ""),
                  Edge("n3", "n4", "") >>]

\* The workflows of the scenarios.
ScenarioGraphs ==
    {ReplyGraph, SplitGraph, LinearGraph, ConditionGraph, TagGraph, EndGraph,
     UpdateGraph, GateGraph}

\* The request bodies of POST /workflows that are drawn.
Graphs == {DelayGraph, CyclicGraph, ThrowingGraph}

NodeIds(nodes) == {nodes[i].id : i \in 1..Len(nodes)}

\* ---------------------------------------------------------- pure functions
\* nodes.find((n) => n.type === 'trigger'): the index of the first one, 0 for none
FindTrigger(nodes) ==
    LET hits == {i \in 1..Len(nodes) : nodes[i].type = "trigger"}
    IN  IF hits = {} THEN 0 ELSE CHOOSE i \in hits : \A k \in hits : i <= k

\* nodes.find((n) => n.id === nodeId): the index of the first one, 0 for none
FindNode(nodes, nodeId) ==
    LET hits == {i \in 1..Len(nodes) : nodes[i].id = nodeId}
    IN  IF hits = {} THEN 0 ELSE CHOOSE i \in hits : \A k \in hits : i <= k

\* evaluateCondition: the body returns true for every condition and result
evaluateCondition(condition, result) == TRUE

\* The loop ends one entry early.
QueueNearlyDrained(queue) == Len(queue) <= 1

\* The while loop's test, negated: queue.length > 0 is false
QueueDrained(queue) == Len(queue) = 0

\* The visited check is lost: no node counts as executed.
NeverExecuted(executedNodes, nodeId) == FALSE

\* executedNodes.has(nodeId)
AlreadyExecuted(executedNodes, nodeId) == nodeId \in executedNodes

\* Only the first edge out of the node is followed.
FirstTarget(edges, nodeId, result) ==
    LET hits == {i \in 1..Len(edges) : edges[i].source = nodeId}
    IN  IF hits = {} THEN << >>
        ELSE << edges[CHOOSE i \in hits : \A k \in hits : i <= k].target >>

\* The targets the loop pushes after a node: edges.filter(e => e.source ===
\* nodeId), in order, without those whose condition is present and not met.
RECURSIVE NextTargets(_, _, _)
NextTargets(edges, nodeId, result) ==
    IF edges = << >> THEN << >>
    ELSE LET edge == Head(edges)
             rest == NextTargets(Tail(edges), nodeId, result)
         IN  IF edge.source # nodeId THEN rest
             ELSE IF edge.condition # "" /\ ~evaluateCondition(edge.condition, result)
                  THEN rest
                  ELSE << edge.target >> \o rest

\* The node types whose executor reads a field of node.data
ReadsData ==
    {"send_message", "send_email", "add_tag", "remove_tag", "update_lead",
     "create_task", "delay", "condition", "webhook"}

\* The executor throws a TypeError: node.data is undefined and is read
ExecutorThrows(node) == node.type \in ReadsData /\ ~node.data.defined

\* The value executeNode returns, by the key of the returned object
ExecutorResult(type) ==
    CASE type = "trigger" -> "triggered"
      [] type \in {"send_message", "send_email"} -> "sent"
      [] type = "add_tag" -> "tagged"
      [] type = "remove_tag" -> "untagged"
      [] type = "update_lead" -> "updated"
      [] type = "create_task" -> "created"
      [] type = "delay" -> "delayed"
      [] type = "condition" -> "condition"
      [] type = "webhook" -> "webhookSent"
      [] type = "ai_agent" -> "aiTriggered"
      [] type = "end" -> "ended"
      [] OTHER -> "unknown"

\* setTimeout's duration: node.data.delayMs || 1000
DelayMs(node) == IF node.data.delayMs = 0 THEN DefaultDelayMs ELSE node.data.delayMs

\* Math.max(0, Math.min(100, score))
Clamp(score) == IF score < 0 THEN 0 ELSE IF score > 100 THEN 100 ELSE score

\* A score that loses a whole point for every percent of failures.
calculateScoreSteep(reputation, t) ==
    LET sent == reputation.messagesSent
        score == 100 - ((100 * reputation.messagesFailed + sent - 1) \div sent)
    IN  Clamp(IF t - reputation.lastMessageAt < 1000 THEN score - 10 ELSE score)

\* AntiBanService.calculateScore at time t. Scores are kept as their integer
\* part: 100 - failureRate * 50 rounded down is 100 less 50 * failed / sent
\* rounded up, and the tests score < 30 and score < 20 against whole numbers
\* give the same answer on the integer part.
calculateScore(reputation, t) ==
    LET sent == reputation.messagesSent
        score == 100 - ((50 * reputation.messagesFailed + sent - 1) \div sent)
    IN  Clamp(IF t - reputation.lastMessageAt < 1000 THEN score - 10 ELSE score)

\* AntiBanService.checkRateLimit on the service's map and the messages table
checkRateLimit(scores, recent, key) ==
    IF key \notin DOMAIN scores THEN [allowed |-> TRUE]
    ELSE IF scores[key].score < 30 THEN [allowed |-> FALSE]
    ELSE IF recent[key] >= HourlyLimit THEN [allowed |-> FALSE]
    ELSE [allowed |-> TRUE]

\* The pause test of AntiBanService.checkReputation
LowReputation(reputation) == reputation.score < 20

\* array_remove(tags, tag)
ArrayRemove(tags, tag) == SelectSeq(tags, LAMBDA t : t # tag)

\* --------------------------------------------------------------------- state
VARIABLES
    workflows,      \* table workflows: id -> row
    wfCreated,      \* number of rows inserted into workflows so far
    executions,     \* table workflow_executions: id -> row
    wait_states,    \* table workflow_wait_states
    jobs,           \* queue 'workflows': job id -> job
    messages,       \* queue 'messages': the bag of the jobs added
    tasks,          \* table tasks: the bag of the rows inserted
    leads,          \* table leads: id -> row
    worker,         \* each processor's local variables and position
    now,            \* the clock
    history,        \* history: execution id -> its job and the executor invocations
    responses,      \* history: what the test and trigger routes replied, and the
                    \* job each request added (0 when it added none)
    reputationScores, \* AntiBanService.reputationScores: key -> ReputationScore
    recentMessages, \* table messages: key -> rows created in the last hour
    campaigns,      \* table campaigns: key -> status of the key's campaign
    aiJobs          \* queue 'ai': the qualify-lead jobs not yet processed

\* The state of the services beside the engine.
serviceVars == << reputationScores, recentMessages, campaigns, aiJobs >>

vars == << workflows, wfCreated, executions, wait_states, jobs, messages, tasks,
           leads, worker, now, history, responses, serviceVars >>

\* A processor that holds no job.
IdleWorker ==
    [pc |-> "idle", job |-> 0, executionId |-> 0, nodes |-> << >>, edges |-> << >>,
     queue |-> << >>, executedNodes |-> {}, results |-> << >>,
     nodeId |-> "", wakeAt |-> 0]

\* Nothing has been replied, recorded, sent or queued beside the engine, and
\* the campaigns table is empty.
NoServices ==
    /\ responses = << >>
    /\ reputationScores = << >>
    /\ recentMessages = [k \in Keys |-> 0]
    /\ campaigns = << >>
    /\ aiJobs = {}

Init ==
    /\ workflows = << >>
    /\ wfCreated = 0
    /\ executions = << >>
    /\ wait_states = {}
    /\ jobs = << >>
    /\ messages = EmptyBag
    /\ tasks = EmptyBag
    /\ leads = [l \in Leads |-> [tenant_id |-> LeadTenant[l], tags |-> << >>,
                                  updates |-> ""]]
    /\ worker = [w \in Workers |-> IdleWorker]
    /\ now = 0
    /\ history = << >>
    /\ NoServices

\* ------------------------------------------------------------ workflow routes
\* POST /workflows: the row is inserted as a draft; run_once_per_lead takes the
\* column's default.
CreateWorkflow(tenantId, graph) ==
    /\ wfCreated < MaxWorkflows
    /\ wfCreated' = wfCreated + 1
    /\ workflows' = workflows @@
          ((wfCreated + 1) :> [tenant_id |-> tenantId, status |-> "draft",
                               trigger |-> graph.trigger,
                               nodes |-> graph.nodes, edges |-> graph.edges,
                               run_once_per_lead |-> TRUE])
    /\ UNCHANGED << serviceVars, responses, executions, wait_states, jobs, messages, tasks, leads, worker,
                    now, history >>

\* UPDATE workflows SET status = $status WHERE id = $1 AND tenant_id = $2
SetWorkflowStatus(id, tenantId, status) ==
    [w \in DOMAIN workflows |->
        IF w = id /\ workflows[w].tenant_id = tenantId
        THEN [workflows[w] EXCEPT !.status = status]
        ELSE workflows[w]]

\* POST /workflows/:id/activate
ActivateWorkflow(id, tenantId) ==
    /\ workflows' = SetWorkflowStatus(id, tenantId, "active")
    /\ workflows' # workflows
    /\ UNCHANGED << serviceVars, responses, wfCreated, executions, wait_states, jobs, messages, tasks, leads,
                    worker, now, history >>

\* POST /workflows/:id/deactivate
DeactivateWorkflow(id, tenantId) ==
    /\ workflows' = SetWorkflowStatus(id, tenantId, "paused")
    /\ workflows' # workflows
    /\ UNCHANGED << serviceVars, responses, wfCreated, executions, wait_states, jobs, messages, tasks, leads,
                    worker, now, history >>

\* The request bodies of PATCH /workflows/:id that are drawn: a new graph, or
\* a new status.
PatchBodies ==
    {[nodes |-> g.nodes, edges |-> g.edges] : g \in {TagGraph, ConditionGraph}}
    \cup {[status |-> "active"], [status |-> "paused"]}

\* db.update(table, id, data): UPDATE ... SET the columns of data WHERE id = $n
DbUpdate(table, id, data) ==
    [r \in DOMAIN table |->
        IF r = id
        THEN [c \in DOMAIN table[r] |->
                 IF c \in DOMAIN data THEN data[c] ELSE table[r][c]]
        ELSE table[r]]

\* PATCH /workflows/:id: the row with that id is updated with the body; the
\* tenant of the user is read and not used. 404 when no row has the id.
PatchWorkflow(id, tenantId, updates) ==
    /\ tenantId \in Tenants
    /\ id \in DOMAIN workflows
    /\ workflows' = DbUpdate(workflows, id, updates)
    /\ UNCHANGED << serviceVars, responses, wfCreated, executions, wait_states, jobs,
                    messages, tasks, leads, worker, now, history >>

\* DELETE /workflows/:id: DELETE FROM workflows WHERE id = $1 AND tenant_id = $2
DeleteWorkflow(id, tenantId) ==
    /\ id \in DOMAIN workflows
    /\ workflows[id].tenant_id = tenantId
    /\ workflows' = [r \in DOMAIN workflows \ {id} |-> workflows[r]]
    /\ UNCHANGED << serviceVars, responses, wfCreated, executions, wait_states, jobs,
                    messages, tasks, leads, worker, now, history >>

\* GET /workflows/:id: the rows the reply carries (none: 404)
GetWorkflow(id, tenantId) ==
    {workflows[r] : r \in {x \in DOMAIN workflows :
                              x = id /\ workflows[x].tenant_id = tenantId}}

\* WorkflowEngine.execute: one job added to the 'workflows' queue with the
\* queue's default options; nothing else is written.
\* addJob('workflows', 'execute', { workflowId, ...data })
AddWorkflowJob(queue, workflowId, data) ==
    Append(queue, [data |-> [workflowId |-> workflowId,
                             tenantId |-> data.tenantId,
                             leadId |-> data.leadId,
                             triggerData |-> data.triggerData],
                   attemptsMade |-> 0, state |-> "waiting"])

\* The object execute resolves to: { jobId: job.id, status: 'queued' }
ExecuteReturn(jobId) == [jobId |-> jobId, status |-> "queued"]

\* Reading a property of an object: undefined when the object has none of
\* that name.
Get(object, key) == IF key \in DOMAIN object THEN object[key] ELSE "undefined"

execute(workflowId, data) ==
    /\ Len(jobs) < MaxRequests
    /\ jobs' = AddWorkflowJob(jobs, workflowId, data)
    /\ UNCHANGED << serviceVars, workflows, wfCreated, executions, wait_states,
                    messages, tasks, leads, worker, now, history >>

\* POST /workflows/:id/test: the body's testData is passed as testData, so the
\* job carries no triggerData; the workflow row is not looked up.
TestWorkflow(id, tenantId, leadId) ==
    /\ tenantId \in Tenants
    /\ execute(id, [tenantId |-> tenantId, leadId |-> leadId,
                    triggerData |-> "undefined"])
    /\ responses' = Append(responses,
          [route |-> "test", code |-> 200, job |-> Len(jobs) + 1,
           data |-> ExecuteReturn(Len(jobs) + 1)])

\* The trigger route's lookup, with no test of the row's status.
AnyWorkflow(id, tenantId) ==
    {row \in {workflows[x] : x \in DOMAIN workflows \cap {id}} :
        row.tenant_id = tenantId}

\* SELECT id FROM workflows WHERE id = $1 AND tenant_id = $2 AND status =
\* 'active': the rows found.
ActiveWorkflow(id, tenantId) ==
    {row \in {workflows[x] : x \in DOMAIN workflows \cap {id}} :
        row.tenant_id = tenantId /\ row.status = "active"}

\* POST /workflows/:id/trigger of the public API: 404 and nothing else unless
\* the row exists, belongs to the tenant and is active; otherwise the run is
\* queued and the reply reads id and status of what execute returned.
TriggerWorkflow(id, tenantId, leadId) ==
    IF ActiveWorkflow(id, tenantId) = {}
    THEN /\ Len(responses) < MaxRequests
         /\ responses' = Append(responses,
               [route |-> "trigger", code |-> 404, job |-> 0,
                data |-> [code |-> "NOT_FOUND"]])
         /\ UNCHANGED << serviceVars, workflows, wfCreated, executions,
                         wait_states, jobs, messages, tasks, leads, worker, now,
                         history >>
    ELSE /\ execute(id, [tenantId |-> tenantId, leadId |-> leadId,
                         triggerData |-> "data"])
         /\ LET execution == ExecuteReturn(Len(jobs) + 1)
            IN  responses' = Append(responses,
                   [route |-> "trigger", code |-> 200, job |-> Len(jobs) + 1,
                    data |-> [executionId |-> Get(execution, "id"),
                              status |-> Get(execution, "status")]])

\* ------------------------------------------------------------------ the queue
\* The processor threw: the job is retried until its attempts (the queue's
\* defaultJobOptions) are used up. The backoff only postpones the retry.
JobsAfterThrow(j) ==
    [jobs EXCEPT ![j].attemptsMade = @ + 1,
                 ![j].state = IF jobs[j].attemptsMade + 1 < Attempts
                              THEN "waiting" ELSE "failed"]

WaitingJobs == {j \in DOMAIN jobs : jobs[j].state = "waiting"}

\* --------------------------------------------------------------- the processor
\* The processor takes the oldest waiting job, reads the workflow row, inserts
\* the execution record and enters executeNodes up to the loop.
WorkerStart(w) ==
    /\ worker[w].pc = "idle"
    /\ WaitingJobs # {}
    /\ LET j == CHOOSE x \in WaitingJobs : \A y \in WaitingJobs : x <= y
           d == jobs[j].data
           found == /\ d.workflowId \in DOMAIN workflows
                    /\ workflows[d.workflowId].tenant_id = d.tenantId
       IN  IF ~found
           THEN \* throw new Error('Workflow not found')
                /\ jobs' = JobsAfterThrow(j)
                /\ UNCHANGED << executions, worker, history >>
           ELSE LET wf == workflows[d.workflowId]
                    e == Len(executions) + 1
                    t == FindTrigger(wf.nodes)
                IN  /\ executions' = Append(executions,
                          [workflow_id |-> d.workflowId, tenant_id |-> d.tenantId,
                           lead_id |-> d.leadId, status |-> "running",
                           context |-> IF d.triggerData = "undefined" THEN "{}"
                                       ELSE d.triggerData,
                           node_results |-> << >>, completed_at |-> -1])
                    /\ history' = Append(history, [job |-> j, invoked |-> << >>])
                    /\ IF t = 0
                       THEN \* throw new Error('No trigger node found')
                            /\ jobs' = JobsAfterThrow(j)
                            /\ UNCHANGED worker
                       ELSE /\ jobs' = [jobs EXCEPT ![j].state = "active"]
                            /\ worker' = [worker EXCEPT ![w] =
                                  [IdleWorker EXCEPT !.pc = "loop", !.job = j,
                                      !.executionId = e, !.nodes = wf.nodes,
                                      !.edges = wf.edges,
                                      !.queue = << wf.nodes[t].id >>]]
    /\ UNCHANGED << serviceVars, responses, workflows, wfCreated, wait_states, messages, tasks, leads, now >>

\* One pass of the loop over a node id that has been executed or names no
\* node: continue.
LoopSkip(w) ==
    /\ worker[w].pc = "loop"
    /\ ~QueueDrained(worker[w].queue)
    /\ LET nodeId == Head(worker[w].queue)
       IN  /\ \/ AlreadyExecuted(worker[w].executedNodes, nodeId)
              \/ FindNode(worker[w].nodes, nodeId) = 0
           /\ worker' = [worker EXCEPT ![w].queue = Tail(@)]
    /\ UNCHANGED << serviceVars, responses, workflows, wfCreated, executions, wait_states, jobs, messages,
                    tasks, leads, now, history >>

\* The node is not added to executedNodes.
AfterNodeUnmarked(w, nodeId, result, queue) ==
    [worker[w] EXCEPT
        !.pc = "loop", !.nodeId = "",
        !.results = Append(@, [nodeId |-> nodeId, result |-> result]),
        !.queue = queue \o NextTargets(worker[w].edges, nodeId, result)]

\* A node without a target empties the queue.
AfterNodeDropsFrontier(w, nodeId, result, queue) ==
    [worker[w] EXCEPT
        !.pc = "loop", !.nodeId = "",
        !.results = Append(@, [nodeId |-> nodeId, result |-> result]),
        !.executedNodes = @ \cup {nodeId},
        !.queue = IF NextTargets(worker[w].edges, nodeId, result) = << >>
                  THEN << >>
                  ELSE queue \o NextTargets(worker[w].edges, nodeId, result)]

\* The lines of the loop after executeNode has returned result for nodeId.
AfterNode(w, nodeId, result, queue) ==
    [worker[w] EXCEPT
        !.pc = "loop", !.nodeId = "",
        !.results = Append(@, [nodeId |-> nodeId, result |-> result]),
        !.executedNodes = @ \cup {nodeId},
        !.queue = queue \o NextTargets(worker[w].edges, nodeId, result)]

\* addJob('messages', name, data): the job waits, with the queue's default
\* options; a job without data.channel has channel "".
AddMessage(name, tenantId, leadId, channel, content) ==
    messages (+) SetToBag({[name |-> name, tenantId |-> tenantId, leadId |-> leadId,
                            channel |-> channel, content |-> content,
                            attemptsMade |-> 0, state |-> "waiting", error |-> ""]})

\* What executeNode writes for a node of the given execution row.
ExecutorEffects(node, x) ==
    /\ messages' =
         CASE node.type = "send_message" ->
                AddMessage("send-message", x.tenant_id, x.lead_id,
                           node.data.channel, node.data.content)
           [] node.type = "send_email" ->
                AddMessage("send-message", x.tenant_id, x.lead_id, "email",
                           node.data.content)
           [] node.type = "webhook" ->
                AddMessage("send-webhook", x.tenant_id, x.lead_id, "", "")
           [] OTHER -> messages
    /\ leads' =
         CASE node.type = "add_tag" ->
                [l \in DOMAIN leads |->
                    IF l = x.lead_id /\ leads[l].tenant_id = x.tenant_id
                    THEN [leads[l] EXCEPT !.tags = Append(@, node.data.tag)]
                    ELSE leads[l]]
           [] node.type = "remove_tag" ->
                [l \in DOMAIN leads |->
                    IF l = x.lead_id /\ leads[l].tenant_id = x.tenant_id
                    THEN [leads[l] EXCEPT !.tags = ArrayRemove(@, node.data.tag)]
                    ELSE leads[l]]
           [] node.type = "update_lead" ->
                [leads EXCEPT ![x.lead_id].updates = node.data.updates]
           [] OTHER -> leads
    /\ tasks' =
         IF node.type = "create_task"
         THEN tasks (+) SetToBag({[tenant_id |-> x.tenant_id, lead_id |-> x.lead_id]})
         ELSE tasks

\* One pass of the loop that invokes executeNode. A delay node leaves the
\* processor inside the executor, waiting for its timer; a throwing executor
\* ends the job with the error; any other executor returns at once.
LoopExec(w) ==
    /\ worker[w].pc = "loop"
    /\ ~QueueDrained(worker[w].queue)
    /\ LET nodeId == Head(worker[w].queue)
           i == FindNode(worker[w].nodes, nodeId)
           e == worker[w].executionId
       IN  /\ ~AlreadyExecuted(worker[w].executedNodes, nodeId)
           /\ i # 0
           /\ history' = [history EXCEPT ![e].invoked =
                                   Append(@, [nodeId |-> nodeId, at |-> now])]
           /\ LET node == worker[w].nodes[i]
              IN  IF ExecutorThrows(node)
                  THEN /\ jobs' = JobsAfterThrow(worker[w].job)
                       /\ worker' = [worker EXCEPT ![w] = IdleWorker]
                       /\ UNCHANGED << messages, tasks, leads >>
                  ELSE IF node.type = "delay"
                  THEN /\ worker' = [worker EXCEPT ![w].pc = "delay",
                                         ![w].queue = Tail(@), ![w].nodeId = nodeId,
                                         ![w].wakeAt = now + DelayMs(node)]
                       /\ UNCHANGED << jobs, messages, tasks, leads >>
                  ELSE /\ ExecutorEffects(node, executions[e])
                       /\ worker' = [worker EXCEPT ![w] =
                             AfterNode(w, nodeId, ExecutorResult(node.type),
                                       Tail(worker[w].queue))]
                       /\ UNCHANGED jobs
    /\ UNCHANGED << serviceVars, responses, workflows, wfCreated, executions, wait_states, now >>

\* The delay executor's timer fires and the loop goes on after the node.
DelayDone(w) ==
    /\ worker[w].pc = "delay"
    /\ now >= worker[w].wakeAt
    /\ worker' = [worker EXCEPT ![w] =
          AfterNode(w, worker[w].nodeId, ExecutorResult("delay"), worker[w].queue)]
    /\ UNCHANGED << serviceVars, responses, workflows, wfCreated, executions, wait_states, jobs, messages,
                    tasks, leads, now, history >>

\* The record is completed while the processor keeps the run, its results
\* cleared.
WorkerCompleteAgain(w) ==
    /\ worker[w].pc = "loop"
    /\ Len(worker[w].queue) = 0
    /\ executions' = [executions EXCEPT ![worker[w].executionId] =
          [@ EXCEPT !.status = "completed", !.completed_at = now,
                    !.node_results = worker[w].results]]
    /\ jobs' = [jobs EXCEPT ![worker[w].job].state = "completed"]
    /\ worker' = [worker EXCEPT ![w].results = << >>]
    /\ UNCHANGED << serviceVars, responses, workflows, wfCreated, wait_states,
                    messages, tasks, leads, now, history >>

\* executeNodes has returned: the record is updated to completed with the
\* results, whatever its status is, and the job completes.
WorkerComplete(w) ==
    /\ worker[w].pc = "loop"
    /\ QueueDrained(worker[w].queue)
    /\ executions' = [executions EXCEPT ![worker[w].executionId] =
          [@ EXCEPT !.status = "completed", !.completed_at = now,
                    !.node_results = worker[w].results]]
    /\ jobs' = [jobs EXCEPT ![worker[w].job].state = "completed"]
    /\ worker' = [worker EXCEPT ![w] = IdleWorker]
    /\ UNCHANGED << serviceVars, responses, workflows, wfCreated, wait_states, messages, tasks, leads, now,
                    history >>

\* ---------------------------------------------------------- the messages worker
\* The channels the messages worker's switch has a case for
SupportedChannels == {"whatsapp", "sms", "email", "telegram"}

\* The messages worker processes a waiting job of the 'messages' queue. It
\* reads data.channel, whatever the job's name is: for a channel of the switch
\* the send returns and the job completes; for any other it throws
\* 'Unsupported channel' and the job is retried until its attempts are used up.
\* The job carries no messageId, so the worker's updates of the messages table
\* meet no row.
ProcessMessage ==
    \E m \in BagToSet(messages) :
    /\ m.state = "waiting"
    /\ LET done ==
             IF m.channel \in SupportedChannels
             THEN [m EXCEPT !.state = "completed"]
             ELSE [m EXCEPT !.attemptsMade = @ + 1,
                            !.error = "Unsupported channel",
                            !.state = IF m.attemptsMade + 1 < Attempts
                                      THEN "waiting" ELSE "failed"]
       IN  messages' = (messages (-) SetToBag({m})) (+) SetToBag({done})
    /\ UNCHANGED << serviceVars, responses, workflows, wfCreated, executions,
                    wait_states, jobs, tasks, leads, worker, now, history >>

\* ------------------------------------------------------------- environment
\* External cancellation of a running or suspended execution.
CancelExecution(e) ==
    /\ e \in DOMAIN executions
    /\ executions[e].status \in {"running", "suspended"}
    /\ Cardinality({x \in DOMAIN executions : executions[x].status = "cancelled"})
          < MaxCancels
    /\ executions' = [executions EXCEPT ![e].status = "cancelled"]
    /\ UNCHANGED << serviceVars, responses, workflows, wfCreated, wait_states, jobs, messages, tasks, leads,
                    worker, now, history >>

\* Time passes. Only a pending timer and the completed_at stamp read the clock,
\* so it is advanced while a timer is pending.
Tick ==
    /\ now < MaxTicks * TickMs
    /\ \E w \in Workers : worker[w].pc = "delay" /\ now < worker[w].wakeAt
    /\ now' = now + TickMs
    /\ UNCHANGED << serviceVars, responses, workflows, wfCreated, executions, wait_states, jobs, messages,
                    tasks, leads, worker, history >>

Next ==
    \/ \E t \in Tenants, g \in Graphs : CreateWorkflow(t, g)
    \/ \E id \in 1..MaxWorkflows, t \in Tenants : ActivateWorkflow(id, t)
    \/ \E id \in 1..MaxWorkflows, t \in Tenants : DeactivateWorkflow(id, t)
    \/ \E id \in 1..MaxWorkflows, t \in Tenants, l \in Leads : TestWorkflow(id, t, l)
    \/ \E id \in 1..MaxWorkflows, t \in Tenants, l \in Leads : TriggerWorkflow(id, t, l)
    \/ \E w \in Workers : WorkerStart(w)
    \/ \E w \in Workers : LoopSkip(w)
    \/ \E w \in Workers : LoopExec(w)
    \/ \E w \in Workers : DelayDone(w)
    \/ \E w \in Workers : WorkerComplete(w)
    \/ \E e \in 1..(MaxRequests * Attempts) : CancelExecution(e)
    \/ Tick

Spec == Init /\ [][Next]_vars

\* ------------------------------------------------- the traversal on any graph
\* One active workflow of three nodes whose edge list is any list of at most
\* MaxEdges edges between them (or to a node id that does not exist), and one
\* accepted run of it.
TraversalNodes ==
    << Node("n1", "trigger", EmptyData), Node("n2", "delay", Delay(TickMs)),
       Node("n3", "add_tag", Tag("A")) >>

EdgeChoices ==
    {Edge(s, t, "") : s \in NodeIds(TraversalNodes),
                      t \in NodeIds(TraversalNodes) \cup {"ghost"}}
    \cup {Edge(s, "n2", "x > 1") : s \in NodeIds(TraversalNodes)}

EdgeLists == UNION {[1..n -> EdgeChoices] : n \in 0..MaxEdges}

TraversalInit ==
    /\ \E edges \in EdgeLists :
          workflows = (1 :> [tenant_id |-> "t1", status |-> "active",
                             trigger |-> Trigger("lead_created"),
                             nodes |-> TraversalNodes, edges |-> edges,
                             run_once_per_lead |-> TRUE])
    /\ wfCreated = 1
    /\ executions = << >>
    /\ wait_states = {}
    /\ jobs = << [data |-> [workflowId |-> 1, tenantId |-> "t1", leadId |-> "l1",
                            triggerData |-> "data"],
                  attemptsMade |-> 0, state |-> "waiting"] >>
    /\ messages = EmptyBag
    /\ tasks = EmptyBag
    /\ leads = [l \in Leads |-> [tenant_id |-> LeadTenant[l], tags |-> << >>,
                                  updates |-> ""]]
    /\ worker = [w \in Workers |-> IdleWorker]
    /\ now = 0
    /\ history = << >>
    /\ NoServices

TraversalNext ==
    \/ \E w \in Workers : WorkerStart(w)
    \/ \E w \in Workers : LoopSkip(w)
    \/ \E w \in Workers : LoopExec(w)
    \/ \E w \in Workers : DelayDone(w)
    \/ \E w \in Workers : WorkerComplete(w)
    \/ \E e \in 1..Attempts : CancelExecution(e)
    \/ Tick

TraversalSpec == TraversalInit /\ [][TraversalNext]_vars

\* ------------------------------------------------------ the scenario workflows
\* One active workflow out of ScenarioGraphs and one accepted run of it, for
\* either lead, with or without trigger data; the lead may hold tag "A".
ScenarioInit ==
    /\ \E graph \in ScenarioGraphs :
          workflows = (1 :> [tenant_id |-> "t1", status |-> "active",
                             trigger |-> graph.trigger,
                             nodes |-> graph.nodes, edges |-> graph.edges,
                             run_once_per_lead |-> TRUE])
    /\ wfCreated = 1
    /\ executions = << >>
    /\ wait_states = {}
    /\ \E l \in Leads, triggerData \in {"data", "undefined"},
          tags \in {<< >>, << "A" >>} :
          /\ jobs = AddWorkflowJob(<< >>, 1, [tenantId |-> "t1", leadId |-> l,
                                              triggerData |-> triggerData])
          /\ leads = [x \in Leads |->
                        [tenant_id |-> LeadTenant[x],
                         tags |-> IF x = l THEN tags ELSE << >>, updates |-> ""]]
    /\ messages = EmptyBag
    /\ tasks = EmptyBag
    /\ worker = [w \in Workers |-> IdleWorker]
    /\ now = 0
    /\ history = << >>
    /\ NoServices

\* The processors whose delay timer has not fired yet.
PendingTimers == {w \in Workers : worker[w].pc = "delay" /\ now < worker[w].wakeAt}

\* Time passes until the earliest pending timer is due.
Elapse ==
    /\ PendingTimers # {}
    /\ \E w \in PendingTimers :
          /\ \A v \in PendingTimers : worker[w].wakeAt <= worker[v].wakeAt
          /\ now' = worker[w].wakeAt
    /\ UNCHANGED << serviceVars, responses, workflows, wfCreated, executions,
                    wait_states, jobs, messages, tasks, leads, worker, history >>

ScenarioNext ==
    \/ \E w \in Workers : WorkerStart(w)
    \/ \E w \in Workers : LoopSkip(w)
    \/ \E w \in Workers : LoopExec(w)
    \/ \E w \in Workers : DelayDone(w)
    \/ \E w \in Workers : WorkerComplete(w)
    \/ ProcessMessage
    \/ Elapse

ScenarioSpec == ScenarioInit /\ [][ScenarioNext]_vars

\* ------------------------------------------------------------ anti-ban service
\* The number of recordMessage calls so far.
Recorded ==
    LET RECURSIVE Sum(_)
        Sum(keys) == IF keys = {} THEN 0
                     ELSE LET k == CHOOSE x \in keys : TRUE
                          IN  reputationScores[k].messagesSent + Sum(keys \ {k})
    IN  Sum(DOMAIN reputationScores)

\* AntiBanService.recordMessage
RecordMessage(tenantId, channel, success) ==
    /\ Recorded < MaxRecorded
    /\ LET key == << tenantId, channel >>
       IN  IF key \in DOMAIN reputationScores
           THEN LET existing == reputationScores[key]
                    counted == [existing EXCEPT
                                  !.messagesSent = @ + 1,
                                  !.messagesFailed = IF success THEN @ ELSE @ + 1,
                                  !.lastMessageAt = now]
                IN  reputationScores' = [reputationScores EXCEPT ![key] =
                       [counted EXCEPT !.score = calculateScore(counted, now)]]
           ELSE reputationScores' = reputationScores @@
                   (key :> [tenantId |-> tenantId, channel |-> channel,
                            score |-> IF success THEN 100 ELSE 90,
                            messagesSent |-> 1,
                            messagesFailed |-> IF success THEN 0 ELSE 1,
                            lastMessageAt |-> now])
    /\ UNCHANGED << recentMessages, campaigns, aiJobs, responses, workflows,
                    wfCreated, executions, wait_states, jobs, messages, tasks, leads,
                    worker, now, history >>

\* POST /messages of the public API inserts a row into the messages table.
InsertMessage(tenantId, channel) ==
    /\ recentMessages[<< tenantId, channel >>] < HourlyLimit
    /\ recentMessages' = [recentMessages EXCEPT ![<< tenantId, channel >>] = @ + 1]
    /\ UNCHANGED << reputationScores, campaigns, aiJobs, responses, workflows,
                    wfCreated, executions, wait_states, jobs, messages, tasks, leads,
                    worker, now, history >>

\* The interval timer fires and checkReputation runs: the running campaign of
\* every key whose reputation is low is paused.
CheckReputation ==
    /\ now < MaxChecks * CheckIntervalMs
    /\ now' = now + CheckIntervalMs
    /\ campaigns' =
          [k \in DOMAIN campaigns |->
              IF /\ k \in DOMAIN reputationScores
                 /\ LowReputation(reputationScores[k])
                 /\ campaigns[k] = "running"
              THEN "paused" ELSE campaigns[k]]
    /\ UNCHANGED << reputationScores, recentMessages, aiJobs, responses, workflows,
                    wfCreated, executions, wait_states, jobs, messages, tasks, leads,
                    worker, history >>

\* One active workflow that sends on every channel and one accepted run of
\* it; for each key the messages table holds one row less than the hourly
\* limit, so that the rows inserted in a behaviour are few.
GateInit ==
    /\ workflows = (1 :> [tenant_id |-> "t1", status |-> "active",
                          trigger |-> GateGraph.trigger,
                          nodes |-> GateGraph.nodes, edges |-> GateGraph.edges,
                          run_once_per_lead |-> TRUE])
    /\ wfCreated = 1
    /\ executions = << >>
    /\ wait_states = {}
    /\ jobs = AddWorkflowJob(<< >>, 1, [tenantId |-> "t1", leadId |-> "l1",
                                        triggerData |-> "data"])
    /\ messages = EmptyBag
    /\ tasks = EmptyBag
    /\ leads = [l \in Leads |-> [tenant_id |-> LeadTenant[l], tags |-> << >>,
                                  updates |-> ""]]
    /\ worker = [w \in Workers |-> IdleWorker]
    /\ now = 0
    /\ history = << >>
    /\ responses = << >>
    /\ reputationScores = << >>
    /\ recentMessages = [k \in Keys |-> HourlyLimit - 1]
    /\ campaigns = << >>
    /\ aiJobs = {}

GateNext ==
    \/ \E w \in Workers : WorkerStart(w)
    \/ \E w \in Workers : LoopSkip(w)
    \/ \E w \in Workers : LoopExec(w)
    \/ \E w \in Workers : WorkerComplete(w)
    \/ \E t \in Tenants, ch \in Channels, success \in BOOLEAN :
          RecordMessage(t, ch, success)
    \/ \E t \in Tenants, ch \in Channels : InsertMessage(t, ch)

GateSpec == GateInit /\ [][GateNext]_vars

\* The two tests on a score: one key whose reputation holds any score from 0
\* to 100 and whose campaign is in any status.
ReputationInit ==
    /\ \E key \in Keys, score \in 0..100, failed \in 0..1,
          status \in {"draft", "running", "paused"} :
          /\ reputationScores =
                (key :> [tenantId |-> key[1], channel |-> key[2], score |-> score,
                         messagesSent |-> 1, messagesFailed |-> failed,
                         lastMessageAt |-> 0])
          /\ campaigns = (key :> status)
    /\ recentMessages = [k \in Keys |-> 0]
    /\ aiJobs = {}
    /\ responses = << >>
    /\ workflows = << >>
    /\ wfCreated = 0
    /\ executions = << >>
    /\ wait_states = {}
    /\ jobs = << >>
    /\ messages = EmptyBag
    /\ tasks = EmptyBag
    /\ leads = [l \in Leads |-> [tenant_id |-> LeadTenant[l], tags |-> << >>,
                                  updates |-> ""]]
    /\ worker = [w \in Workers |-> IdleWorker]
    /\ now = 0
    /\ history = << >>

ReputationNext ==
    \/ CheckReputation
    \/ \E t \in Tenants, ch \in Channels, success \in BOOLEAN :
          RecordMessage(t, ch, success)

ReputationSpec == ReputationInit /\ [][ReputationNext]_vars

\* ------------------------------------------------------------- domain events
\* The ids the leads table gives to the rows inserted in a behaviour.
NewLeads == {"l3"}

\* POST /leads: the row is inserted; a qualify-lead job is added to the 'ai'
\* queue when the AI service is on and the body has an email. No workflow is
\* looked up.
CreateLead(tenantId, qualify) ==
    /\ \E l \in NewLeads \ DOMAIN leads :
          /\ leads' = leads @@ (l :> [tenant_id |-> tenantId, tags |-> << >>,
                                      updates |-> ""])
          /\ aiJobs' = IF qualify
                       THEN aiJobs \cup {[leadId |-> l, tenantId |-> tenantId]}
                       ELSE aiJobs
    /\ UNCHANGED << reputationScores, recentMessages, campaigns, responses,
                    workflows, wfCreated, executions, wait_states, jobs, messages,
                    tasks, worker, now, history >>

\* triggerHighScoreWorkflow's query: the active workflows of the tenant whose
\* trigger type is lead_scored_high
HighScoreWorkflows(tenantId) ==
    {id \in DOMAIN workflows :
        /\ workflows[id].tenant_id = tenantId
        /\ workflows[id].status = "active"
        /\ workflows[id].trigger.type = "lead_scored_high"}

\* execute called for each workflow id of a list, in order
RECURSIVE ExecuteEach(_, _, _)
ExecuteEach(queue, ids, data) ==
    IF ids = << >> THEN queue
    ELSE ExecuteEach(AddWorkflowJob(queue, Head(ids), data), Tail(ids), data)

\* The 'ai' worker processes a qualify-lead job whose qualification has the
\* given score: from 70 on, execute is called for every workflow of the
\* query, in the order the query returned them (it has no ORDER BY).
QualifyLead(job, score) ==
    /\ job \in aiJobs
    /\ aiJobs' = aiJobs \ {job}
    /\ IF score >= 70
       THEN LET found == HighScoreWorkflows(job.tenantId)
            IN  \E ids \in [1..Cardinality(found) -> found] :
                   /\ \A i, k \in DOMAIN ids : ids[i] = ids[k] => i = k
                   /\ jobs' = ExecuteEach(jobs, ids,
                                  [tenantId |-> job.tenantId, leadId |-> job.leadId,
                                   triggerData |-> "undefined"])
       ELSE jobs' = jobs
    /\ UNCHANGED << reputationScores, recentMessages, campaigns, responses,
                    workflows, wfCreated, executions, wait_states, messages, tasks,
                    leads, worker, now, history >>

\* Two workflows, each of either tenant, in any status and with either trigger
\* type.
TriggerInit ==
    /\ \E rows \in [1..2 -> Tenants \X {"draft", "active", "paused"}
                                    \X {"lead_created", "lead_scored_high"}] :
          workflows = [id \in 1..2 |->
                         [tenant_id |-> rows[id][1], status |-> rows[id][2],
                          trigger |-> Trigger(rows[id][3]),
                          nodes |-> TagGraph.nodes, edges |-> TagGraph.edges,
                          run_once_per_lead |-> TRUE]]
    /\ wfCreated = 2
    /\ executions = << >>
    /\ wait_states = {}
    /\ jobs = << >>
    /\ messages = EmptyBag
    /\ tasks = EmptyBag
    /\ leads = [l \in Leads |-> [tenant_id |-> LeadTenant[l], tags |-> << >>,
                                  updates |-> ""]]
    /\ worker = [w \in Workers |-> IdleWorker]
    /\ now = 0
    /\ history = << >>
    /\ NoServices

TriggerNext ==
    \/ \E t \in Tenants, qualify \in BOOLEAN : CreateLead(t, qualify)
    \/ \E t \in Tenants, l \in NewLeads, score \in {69, 70} :
          QualifyLead([leadId |-> l, tenantId |-> t], score)

TriggerSpec == TriggerInit /\ [][TriggerNext]_vars

\* ------------------------------------------------------- edits during a run
\* One active workflow holding TagGraph and one run of it accepted for either
\* lead; the workflow is edited while the run waits in the queue or is
\* processed.
EditInit ==
    /\ workflows = (1 :> [tenant_id |-> "t1", status |-> "active",
                          trigger |-> TagGraph.trigger,
                          nodes |-> TagGraph.nodes, edges |-> TagGraph.edges,
                          run_once_per_lead |-> TRUE])
    /\ wfCreated = 1
    /\ executions = << >>
    /\ wait_states = {}
    /\ \E l \in Leads :
          jobs = AddWorkflowJob(<< >>, 1, [tenantId |-> "t1", leadId |-> l,
                                           triggerData |-> "data"])
    /\ messages = EmptyBag
    /\ tasks = EmptyBag
    /\ leads = [l \in Leads |-> [tenant_id |-> LeadTenant[l], tags |-> << >>,
                                  updates |-> ""]]
    /\ worker = [w \in Workers |-> IdleWorker]
    /\ now = 0
    /\ history = << >>
    /\ NoServices

EditNext ==
    \/ \E w \in Workers : WorkerStart(w)
    \/ \E w \in Workers : LoopSkip(w)
    \/ \E w \in Workers : LoopExec(w)
    \/ \E w \in Workers : WorkerComplete(w)
    \/ \E t \in Tenants, updates \in PatchBodies : PatchWorkflow(1, t, updates)

EditSpec == EditInit /\ [][EditNext]_vars

\* ------------------------------------------------ the routes on two tenants
\* The tenant of the requests
Requester == "t2"

\* Workflow 1 belongs to t1 and workflow 2 to t2, each in any status; every
\* request is made for the tenant Requester, with either workflow id.
RoutesInit ==
    /\ \E s1, s2 \in {"draft", "active", "paused"} :
          workflows =
             (1 :> [tenant_id |-> "t1", status |-> s1,
                    trigger |-> TagGraph.trigger,
                    nodes |-> TagGraph.nodes, edges |-> TagGraph.edges,
                    run_once_per_lead |-> TRUE])
             @@ (2 :> [tenant_id |-> "t2", status |-> s2,
                       trigger |-> TagGraph.trigger,
                       nodes |-> TagGraph.nodes, edges |-> TagGraph.edges,
                       run_once_per_lead |-> TRUE])
    /\ wfCreated = 2
    /\ executions = << >>
    /\ wait_states = {}
    /\ jobs = << >>
    /\ messages = EmptyBag
    /\ tasks = EmptyBag
    /\ leads = [l \in Leads |-> [tenant_id |-> LeadTenant[l], tags |-> << >>,
                                  updates |-> ""]]
    /\ worker = [w \in Workers |-> IdleWorker]
    /\ now = 0
    /\ history = << >>
    /\ NoServices

RoutesNext ==
    \/ \E id \in 1..2 : ActivateWorkflow(id, Requester)
    \/ \E id \in 1..2 : DeactivateWorkflow(id, Requester)
    \/ \E id \in 1..2, updates \in PatchBodies : PatchWorkflow(id, Requester, updates)
    \/ \E id \in 1..2 : DeleteWorkflow(id, Requester)
    \/ \E id \in 1..2, l \in Leads : TriggerWorkflow(id, Requester, l)

RoutesSpec == RoutesInit /\ [][RoutesNext]_vars

\* ------------------------------------------------------------------- claims
NonTerminal(e) == executions[e].status \notin TerminalStatuses

\* The processors that hold execution e.
Holders(e) == {w \in Workers : worker[w].pc # "idle" /\ worker[w].executionId = e}

\* C1: a run_once_per_lead workflow never has two non-terminal executions for
\* the same (workflow_id, lead_id) pair.
C1_OneNonTerminalPerLead ==
    \A e1, e2 \in DOMAIN executions :
        ( /\ e1 # e2
          /\ executions[e1].workflow_id = executions[e2].workflow_id
          /\ executions[e1].lead_id = executions[e2].lead_id
          /\ executions[e1].workflow_id \in DOMAIN workflows
          /\ workflows[executions[e1].workflow_id].run_once_per_lead
          /\ NonTerminal(e1) )
        => ~NonTerminal(e2)

\* The successors of a delay node invoked at time t with duration D are
\* invoked at or after t + D.
DelayRespected ==
    \A e \in DOMAIN history :
        LET inv == history[e].invoked
            wf == workflows[executions[e].workflow_id]
        IN  \A i, k \in 1..Len(inv) :
                LET n == FindNode(wf.nodes, inv[i].nodeId)
                IN  (i < k /\ n # 0 /\ wf.nodes[n].type = "delay")
                    => inv[k].at >= inv[i].at + DelayMs(wf.nodes[n])

\* C2: while the traversal is at a delay node the execution is suspended, and
\* no successor of the delay node runs before the delay has elapsed.
C2_DelaySuspends ==
    /\ \A w \in Workers :
          worker[w].pc = "delay" => executions[worker[w].executionId].status = "suspended"
    /\ DelayRespected

\* C3: an execution whose run has ended without completing (its executor threw)
\* is failed and its last node_results entry carries the error.
C3_FailureRecorded ==
    \A e \in DOMAIN executions :
        (Holders(e) = {} /\ executions[e].status # "completed")
        => /\ executions[e].status = "failed"
           /\ executions[e].node_results # << >>
           /\ executions[e].node_results[Len(executions[e].node_results)].result
                = "error"

\* C4: one accepted request has at most one execution record and invokes each
\* node's executor at most once.
C4_NoAutomaticRetry ==
    \A j \in DOMAIN jobs :
        LET runs == {e \in DOMAIN history : history[e].job = j}
        IN  /\ Cardinality(runs) <= 1
            /\ \A e1, e2 \in runs :
                  \A i \in 1..Len(history[e1].invoked), k \in 1..Len(history[e2].invoked) :
                      history[e1].invoked[i].nodeId = history[e2].invoked[k].nodeId
                      => (e1 = e2 /\ i = k)

NoRepeat(results) ==
    \A i, k \in 1..Len(results) : results[i].nodeId = results[k].nodeId => i = k

\* C5: no node id appears twice in the results of a traversal pass, nor in
\* the node_results it persists.
C5_NoNodeTwice ==
    /\ \A w \in Workers : NoRepeat(worker[w].results)
    /\ \A e \in DOMAIN executions : NoRepeat(executions[e].node_results)

\* A pass over a graph with a back-edge or a self-loop meets an executed node
\* again at the head of its queue.
C5_Witness ==
    \E w \in Workers :
        /\ worker[w].pc = "loop"
        /\ worker[w].queue # << >>
        /\ Head(worker[w].queue) \in worker[w].executedNodes
        /\ Len(worker[w].results) >= 2

\* The loop's rank: nodes not yet executed first, queue length second.
Rank(w) ==
    (Len(worker[w].nodes) - Cardinality(worker[w].executedNodes))
        * (Len(worker[w].edges) + 2)
    + Len(worker[w].queue)

\* C6: the traversal terminates on every graph: each pass of the loop lowers
\* a rank that is never negative, and the executor is invoked at most once per
\* node.
C6_TraversalTerminates ==
    /\ [][\A w \in Workers :
            (worker[w].pc \in {"loop", "delay"} /\ worker'[w] # worker[w]
               /\ worker'[w].pc \in {"loop", "delay"})
            => Rank(w)' < Rank(w)]_vars
    /\ [](\A w \in Workers : Rank(w) >= 0)
    /\ [](\A e \in DOMAIN history :
            Len(history[e].invoked)
              <= Len(workflows[executions[e].workflow_id].nodes))

\* A pass over a graph with an edge back to the trigger node has completed.
C6_Witness ==
    \E e \in DOMAIN executions :
        /\ executions[e].status = "completed"
        /\ LET edges == workflows[executions[e].workflow_id].edges
           IN  \E i \in 1..Len(edges) :
                   /\ edges[i].target = "n1"
                   /\ \E k \in 1..Len(executions[e].node_results) :
                         executions[e].node_results[k].nodeId = edges[i].source

HasDanglingEdge(wf) ==
    \E i \in 1..Len(wf.edges) : wf.edges[i].target \notin NodeIds(wf.nodes)

\* C7: activating a workflow that has an edge to a missing node leaves it
\* inactive.
C7_DanglingNotActivated ==
    [][\A id \in DOMAIN workflows :
          (HasDanglingEdge(workflows[id]) /\ workflows[id].status # "active")
          => workflows'[id].status # "active"]_vars

PendingWaits(e) == {ws \in wait_states : ws.execution_id = e /\ ~ws.resumed}

\* C8: an execution becomes completed only when its frontier is empty, none
\* of its delay nodes is still waiting and it has no pending wait state.
C8_CompletedOnlyWhenDrained ==
    [][\A e \in DOMAIN executions :
          (executions'[e].status = "completed" /\ executions[e].status # "completed")
          => /\ \A w \in Holders(e) : worker[w].queue = << >> /\ worker[w].pc # "delay"
             /\ Holders(e) # {}
             /\ PendingWaits(e) = {}]_vars

\* An execution that went through a delay node has completed.
C8_Witness ==
    \E e \in DOMAIN executions :
        /\ executions[e].status = "completed"
        /\ \E k \in 1..Len(executions[e].node_results) :
              executions[e].node_results[k].result = "delayed"

\* C9: a terminal execution record is never changed again.
C9_TerminalImmutable ==
    [][\A e \in DOMAIN executions :
          executions[e].status \in TerminalStatuses => executions'[e] = executions[e]]_vars

\* C10: once an execution is cancelled, no further executor is invoked for it.
C10_CancelStopsTraversal ==
    [][\A e \in DOMAIN executions :
          executions[e].status = "cancelled"
          => history'[e].invoked = history[e].invoked]_vars
\* The node types at which an execution waits for a resume.
WaitNodeTypes == {"delay", "wait_for_reply"}

\* The wait states of node nodeId of execution e that a resume was applied to.
ResumesApplied(e, nodeId) ==
    {ws \in wait_states : ws.execution_id = e /\ ws.node_id = nodeId /\ ws.resumed}

\* The nodes of execution e's workflow.
NodesOf(e) == workflows[executions[e].workflow_id].nodes

\* The type of node nodeId of execution e's workflow.
TypeOf(e, nodeId) == NodesOf(e)[FindNode(NodesOf(e), nodeId)].type

C12_WaitsForReply ==
    \A e \in DOMAIN history :
        LET inv == history[e].invoked
        IN  \A i \in 1..Len(inv) :
                TypeOf(e, inv[i].nodeId) = "wait_for_reply" => i = Len(inv)
\* The jobs of the 'messages' queue for a key.
JobsFor(bag, key) ==
    {m \in BagToSet(bag) : m.tenantId = key[1] /\ m.channel = key[2]}

\* C13: while the gate answers allowed: false for a tenant and channel, no
\* job for that tenant and channel is added to the 'messages' queue.
C13_GateBlocksDispatch ==
    [][\A key \in Keys :
          ~checkRateLimit(reputationScores, recentMessages, key).allowed
          => \A m \in JobsFor(messages', key) :
                CopiesIn(m, messages') = CopiesIn(m, messages)]_vars

ContextKeys(context) == IF context = "data" THEN {"x"} ELSE {}

\* The variable a condition reads.
ConditionVariable(condition) ==
    IF condition = "x > 1" THEN "x"
    ELSE IF condition = "missing > 1" THEN "missing"
    ELSE ""

\* The condition of the edge reads a variable that the context does not hold.
AbsentCondition(edge, context) ==
    edge.condition # "" /\ ConditionVariable(edge.condition) \notin ContextKeys(context)

\* The processor has, in this step, recorded the result of a node.
NodeDone(w) == Len(worker'[w].results) = Len(worker[w].results) + 1

\* The node whose result the step has recorded.
DoneNode(w) == worker'[w].results[Len(worker'[w].results)].nodeId

\* The targets the step has pushed: what the queue holds behind the entries
\* that were waiting in it.
Pushed(w) ==
    LET waiting == IF worker[w].pc = "delay" THEN Len(worker[w].queue)
                   ELSE Len(worker[w].queue) - 1
    IN  SubSeq(worker'[w].queue, waiting + 1, Len(worker'[w].queue))

\* The edges out of node nodeId, by their place in the edge list.
EdgesOut(w, nodeId) ==
    {i \in 1..Len(worker[w].edges) : worker[w].edges[i].source = nodeId}

\* C15: an edge whose condition reads a variable absent from the context does
\* not match: after a node, no target is queued through such an edge.
C15_AbsentVariableNotMatched ==
    [][\A w \in Workers :
          NodeDone(w)
          => Len(Pushed(w)) <=
               Cardinality({i \in EdgesOut(w, DoneNode(w)) :
                  ~AbsentCondition(worker[w].edges[i],
                                   executions[worker[w].executionId].context)})]_vars

\* The node ids that have a result in the record of execution e.
ResultNodes(e) ==
    {executions[e].node_results[k].nodeId : k \in 1..Len(executions[e].node_results)}

\* The tags of a lead, as a set.
TagsOf(l) == {leads[l].tags[k] : k \in 1..Len(leads[l].tags)}

\* Execution e runs the split workflow for a lead of its own tenant.
SplitRun(e) ==
    /\ NodesOf(e) = SplitGraph.nodes
    /\ workflows[executions[e].workflow_id].edges = SplitGraph.edges
    /\ leads[executions[e].lead_id].tenant_id = executions[e].tenant_id

LinearRun(e) ==
    /\ NodesOf(e) = LinearGraph.nodes
    /\ workflows[executions[e].workflow_id].edges = LinearGraph.edges

\* The number of jobs in the 'messages' queue with the given content.
Sent(content) ==
    LET RECURSIVE Count(_)
        Count(ms) == IF ms = {} THEN 0
                     ELSE LET m == CHOOSE x \in ms : TRUE
                          IN  CopiesIn(m, messages) + Count(ms \ {m})
    IN  Count({m \in BagToSet(messages) : m.content = content})

\* The linear workflow sends "Welcome" before its delay and "Follow up" only
\* after it, and a completed run holds one result per node, in order.
LinearOrder ==
    \A e \in DOMAIN executions :
        LinearRun(e)
        => /\ \A w \in Holders(e) :
                 worker[w].pc = "delay" => Sent("Welcome") = 1 /\ Sent("Follow up") = 0
           /\ Sent("Follow up") > 0 => now >= DelayMs(LinearGraph.nodes[3])
           /\ executions[e].status = "completed"
              => /\ Len(executions[e].node_results) = 5
                 /\ \A k \in 1..5 :
                       executions[e].node_results[k].nodeId = LinearGraph.nodes[k].id

\* C17: in the linear workflow the first send is enqueued before the execution
\* suspends at the delay, the second only after the resume, and the completed
\* execution holds exactly one node_results entry per node, in order.
C17_LinearScenario ==
    /\ LinearOrder
    /\ \A e \in DOMAIN executions :
          LinearRun(e)
          => \A w \in Holders(e) :
                worker[w].pc = "delay" => executions[e].status = "suspended"
\* The jobs the step has added to the 'workflows' queue.
NewJobs == {jobs'[j] : j \in DOMAIN jobs' \ DOMAIN jobs}

\* C18: when a lead is created, a run starts for every active workflow of the
\* lead's tenant whose trigger type is lead_created; and a run only ever
\* starts for an active workflow of the tenant the event belongs to.
C18_EventStartsMatchingWorkflows ==
    [][/\ \A l \in DOMAIN leads' \ DOMAIN leads :
            \A id \in DOMAIN workflows :
                ( /\ workflows[id].status = "active"
                  /\ workflows[id].tenant_id = leads'[l].tenant_id
                  /\ workflows[id].trigger.type = "lead_created" )
                => \E job \in NewJobs :
                      job.data.workflowId = id /\ job.data.leadId = l
       /\ \A job \in NewJobs :
            /\ workflows[job.data.workflowId].status = "active"
            /\ workflows[job.data.workflowId].tenant_id = job.data.tenantId]_vars
\* The executions created for the request that got the i-th reply.
RunsOf(i) == {e \in DOMAIN history : history[e].job = responses[i].job}

\* C19: the reply of the public trigger route carries an execution id, which
\* is the id of the execution record of the run it started.
C19_ReplyCarriesExecutionId ==
    \A i \in DOMAIN responses :
        (responses[i].route = "trigger" /\ responses[i].code = 200)
        => /\ responses[i].data.executionId # "undefined"
           /\ \A e \in RunsOf(i) : responses[i].data.executionId = e

\* The node of processor w's workflow whose result the step has recorded.
DoneNodeOf(w) == worker[w].nodes[FindNode(worker[w].nodes, DoneNode(w))]

\* C20: add_tag for a tag the lead already holds, and remove_tag for a tag
\* the lead does not hold, leave the lead's tags as they were.
C20_TagsIdempotent ==
    [][\A w \in Workers :
          NodeDone(w)
          => LET node == DoneNodeOf(w)
                 l == executions[worker[w].executionId].lead_id
             IN  /\ (node.type = "add_tag" /\ node.data.tag \in TagsOf(l))
                    => leads'[l].tags = leads[l].tags
                 /\ (node.type = "remove_tag" /\ node.data.tag \notin TagsOf(l))
                    => leads'[l].tags = leads[l].tags]_vars

\* remove_tag leaves no copy of its tag, so a second remove_tag changes
\* nothing.
RemoveTagIdempotent ==
    [][\A w \in Workers :
          (NodeDone(w) /\ DoneNodeOf(w).type = "remove_tag")
          => LET l == executions[worker[w].executionId].lead_id
             IN  ArrayRemove(leads'[l].tags, DoneNodeOf(w).data.tag) = leads'[l].tags]_vars
\* The graph the workflow held when the run of EditSpec was accepted.
AcceptedVersion == TagGraph

\* Once the processor has loaded the graph, an edit does not reach it.
LoadedGraphStable ==
    [][\A w \in Workers :
          (worker[w].pc # "idle" /\ worker'[w].pc # "idle")
          => /\ worker'[w].nodes = worker[w].nodes
             /\ worker'[w].edges = worker[w].edges]_vars

\* C21: an accepted run traverses the graph the workflow held when the run was
\* accepted, whatever edits are made before the run has ended.
C21_RunsAcceptedVersion ==
    \A w \in Workers :
        worker[w].pc # "idle"
        => /\ worker[w].nodes = AcceptedVersion.nodes
           /\ worker[w].edges = AcceptedVersion.edges
\* C22: every node id in a traversal queue is the id of a node of the graph
\* the traversal runs against.
C22_FrontierHoldsNodes ==
    \A w \in Workers :
        \A i \in 1..Len(worker[w].queue) :
            worker[w].queue[i] \in NodeIds(worker[w].nodes)

\* Sequence a is a prefix of sequence b.
IsPrefix(a, b) == Len(a) <= Len(b) /\ SubSeq(b, 1, Len(a)) = a

\* C23: the persisted node_results of an execution only grows: each value is
\* a prefix of the next.
C23_NodeResultsAppendOnly ==
    [][\A e \in DOMAIN executions :
          IsPrefix(executions[e].node_results, executions'[e].node_results)]_vars

\* An execution has persisted the results of at least two nodes.
C23_Witness ==
    \E e \in DOMAIN executions :
        executions[e].status = "completed" /\ Len(executions[e].node_results) >= 2

\* The entries that wait in the queue behind the node in hand.
Waiting(w) ==
    IF worker[w].pc = "delay" THEN worker[w].queue ELSE Tail(worker[w].queue)

\* Edge i of execution e's workflow matches: it has no condition or its
\* condition passes.
Matches(edge) == edge.condition = "" \/ evaluateCondition(edge.condition, "")

\* C24: a node after which no edge matches ends its own branch only: the
\* traversal goes on with the entries that wait in the queue and nothing is
\* failed, and a completed execution has executed every node that a matching
\* edge out of an executed node leads to.
C24_LeafEndsOwnBranch ==
    /\ [][\A w \in Workers :
            (NodeDone(w) /\ Pushed(w) = << >>)
            => /\ worker'[w].pc = "loop"
               /\ worker'[w].queue = Waiting(w)
               /\ executions'[worker[w].executionId].status
                     = executions[worker[w].executionId].status
               /\ jobs'[worker[w].job].state = "active"]_vars
    /\ [](\A e \in DOMAIN executions :
            executions[e].status = "completed"
            => LET edges == workflows[executions[e].workflow_id].edges
               IN  \A i \in 1..Len(edges) :
                     ( /\ edges[i].source \in ResultNodes(e)
                       /\ Matches(edges[i])
                       /\ edges[i].target \in NodeIds(NodesOf(e)) )
                     => edges[i].target \in ResultNodes(e))

\* A completed execution executed a node without outgoing edges and, after
\* it, a node that was waiting in the queue.
C24_Witness ==
    \E e \in DOMAIN executions :
        /\ executions[e].status = "completed"
        /\ LET edges == workflows[executions[e].workflow_id].edges
               results == executions[e].node_results
           IN  \E k \in 1..Len(results) :
                  /\ k < Len(results)
                  /\ \A i \in 1..Len(edges) : edges[i].source # results[k].nodeId
\* C25: an end node is terminal: after it, no target of an edge that leaves
\* it is queued.
C25_EndIsTerminal ==
    [][\A w \in Workers :
          (NodeDone(w) /\ DoneNodeOf(w).type = "end") => Pushed(w) = << >>]_vars

\* The tenants on whose behalf some Execution exists
RunningTenants == {executions[e].tenant_id : e \in DOMAIN executions}

\* C28: the executors of a tenant's Execution modify only leads of that
\* tenant: a step leaves every lead of any other tenant as it was, also when
\* the run's leadId names such a lead.
C28_ForeignLeadsUntouched ==
    [][\A l \in DOMAIN leads :
          leads[l].tenant_id \notin RunningTenants => leads'[l] = leads[l]]_vars

\* The tag executors alone keep to the run's tenant.
TagExecutorsKeepTenant ==
    [][\A l \in DOMAIN leads :
          leads[l].tenant_id \notin RunningTenants
              => leads'[l].tags = leads[l].tags]_vars

\* C30: every job a workflow node places on the 'messages' queue is carried
\* out by the messages worker: none of them, the 'send-webhook' job included,
\* is rejected as an unsupported channel.
C30_NodeJobsCarriedOut ==
    \A m \in BagToSet(messages) :
        m.name \in {"send-message", "send-webhook"}
            => m.error # "Unsupported channel"

\* The jobs of the send_message and send_email nodes are carried out.
SendJobsCarriedOut ==
    \A m \in BagToSet(messages) :
        m.name = "send-message" => m.error = ""

\* C27: whatever recordMessage calls were made, every stored score is within
\* 0..100 and at least 40, so checkRateLimit does not deny a send because of
\* the score and checkReputation finds no reputation low.
C27_ScoreNeverLow ==
    \A key \in DOMAIN reputationScores :
        LET reputation == reputationScores[key]
        IN  /\ reputation.score \in 40..100
            /\ reputation.messagesFailed <= reputation.messagesSent
            /\ checkRateLimit(reputationScores, [k \in Keys |-> 0], key).allowed
            /\ ~LowReputation(reputation)

\* Every recorded message of a key failed, the first one and a later one: the
\* score is at its lowest.
C27_Witness ==
    \E key \in DOMAIN reputationScores :
        /\ reputationScores[key].messagesSent > 1
        /\ reputationScores[key].messagesFailed = reputationScores[key].messagesSent
        /\ reputationScores[key].score = 40

\* The trigger route has just replied.
TriggerReplied ==
    /\ Len(responses') = Len(responses) + 1
    /\ responses'[Len(responses')].route = "trigger"

\* C26: the public trigger route adds a job only for a workflow that exists,
\* belongs to the calling tenant and is active, and then replies with success;
\* in every other case it replies 404 and the queue is as it was.
C26_TriggerOnlyActiveOwn ==
    [][TriggerReplied
       => LET reply == responses'[Len(responses')]
          IN  IF reply.code = 404
              THEN jobs' = jobs
              ELSE /\ Len(jobs') = Len(jobs) + 1
                   /\ SubSeq(jobs', 1, Len(jobs)) = jobs
                   /\ LET d == jobs'[Len(jobs')].data
                      IN  /\ d.workflowId \in DOMAIN workflows
                          /\ workflows[d.workflowId].tenant_id = Requester
                          /\ d.tenantId = Requester
                          /\ workflows[d.workflowId].status = "active"]_vars

\* The route has refused a request and accepted another.
C26_Witness ==
    \E i, j \in DOMAIN responses :
        /\ responses[i].route = "trigger" /\ responses[i].code = 404
        /\ responses[j].route = "trigger" /\ responses[j].code = 200
        /\ Len(jobs) > 0

\* C29: the workflow routes act only on workflows of the requester's tenant:
\* a workflow of another tenant cannot be read by GET and no route changes or
\* removes its row.
C29_RoutesKeepTenant ==
    [][\A id \in DOMAIN workflows :
          workflows[id].tenant_id # Requester
          => /\ GetWorkflow(id, Requester) = {}
             /\ id \in DOMAIN workflows'
             /\ workflows'[id] = workflows[id]]_vars

\* The foreign workflow keeps its tenant and cannot be read.
ForeignWorkflowUnreadable ==
    \A id \in DOMAIN workflows :
        workflows[id].tenant_id # Requester => GetWorkflow(id, Requester) = {}
====
